---- MODULE Spec2Model ----
(***************************************************************************)
(* Model of the financial-scam-detector backend: the risk fusion engine    *)
(* (detectors/risk_scorer.py), the URL phishing detector                   *)
(* (detectors/url_phishing_detector.py) and the email phishing detector    *)
(* (detectors/email_phishing_detector.py).                                 *)
(*                                                                         *)
(* Numbers.  Scores, signal values and weights are Python floats in the    *)
(* code.  Here a weight or an additive score is an integer number of      *)
(* hundredths (0.25 is 25), a signal value an integer number of tenths     *)
(* (0.6 is 6), and a quotient is kept as an exact fraction [num, den].     *)
(* IEEE-754 rounding is not modelled: the arithmetic is that of the        *)
(* rationals, so a score that the floats put one ulp under a threshold     *)
(* sits on the threshold here.                                             *)
(*                                                                         *)
(* Text.  A Python str is a TLA+ string; Len, SubSeq and \o act on it      *)
(* character by character.                                                 *)
(***************************************************************************)
EXTENDS Integers, Sequences, FiniteSets, TLC

VARIABLES pc, signals, url, email, result,
          page, whois, scorer, calls, detectors, request, response

vars == <<pc, signals, url, email, result,
          page, whois, scorer, calls, detectors, request, response>>

\* The state of the webpage classifier's and the domain checker's inputs, of
\* the RiskScorer object and of the API application.
appVars == <<page, whois, scorer, calls, detectors, request, response>>

(***************************************************************************)
(* Bounds of the model                                                     *)
(***************************************************************************)
\* The signal values tried are k/Levels for k in 0..Levels, next to the
\* values the thresholds of the code sit on.
Levels == 2

\* The number of callers that share one RiskScorer and the number of calls
\* they make between them.
NumCallers == 2

MaxCalls == 3

(***************************************************************************)
(* Python values                                                           *)
(***************************************************************************)
\* Python's None, as a signal value (Optional[float]).
None == -1

\* The result variable before the call has run.
Pending == [outcome |-> "pending"]

\* An exception leaving the function: its type and the function raising it.
Raise(error, where) == [outcome |-> "raised", error |-> error, where |-> where]

Frac(n, d) == [num |-> n, den |-> d]

\* min(x, 1.0) on a fraction
MinOne(f) == IF f.num > f.den THEN Frac(1, 1) ELSE f

\* x >= c and x > c for a fraction x and c hundredths
FracGE(f, c) == f.num * 100 >= c * f.den

FracGT(f, c) == f.num * 100 > c * f.den

\* x <= y on fractions
FracLE(f, g) == f.num * g.den <= g.num * f.den

RECURSIVE SumSeq(_)
SumSeq(s) == IF s = <<>> THEN 0 ELSE Head(s) + SumSeq(Tail(s))

(***************************************************************************)
(* RiskScorer                                                              *)
(***************************************************************************)
SignalNames == {"websiteTrust", "urlPhishing", "financialIntent", "otpMisuse", "upiScam"}

\* self.weights, in hundredths; a dict iterates in insertion order.
weights == [n \in SignalNames |->
              CASE n = "websiteTrust" -> 25
                [] n = "urlPhishing" -> 20
                [] n = "financialIntent" -> 30
                [] n = "otpMisuse" -> 15
                [] n = "upiScam" -> 10]

weights_items == <<"websiteTrust", "urlPhishing", "financialIntent", "otpMisuse", "upiScam">>

\* The RiskScorer object after __init__: its one attribute is the weight
\* table.
RiskScorer == [weights |-> weights]

\* The values a present signal takes, in tenths: the grid k/Levels and the
\* values 0.5, 0.6, 0.7, 0.8 around the thresholds of the code.
SignalValues == {0, 5, 6, 7, 8, 10} \cup {(10 * k) \div Levels : k \in 0..Levels}

\* A signal bundle is a dict: a name may be missing, mapped to None (as
\* the /api/risk-score endpoint does for a field the request leaves out) or
\* mapped to a value.
Bundles == UNION {[S -> SignalValues \cup {None}] : S \in SUBSET SignalNames}

\* The bundle the endpoint builds from a RiskScoreRequest: all five keys.
EndpointBundles == [SignalNames -> SignalValues \cup {None}]

\* dict.get(name, default); dict.get(name) is Get(d, name, None)
Get(d, name, default) == IF name \in DOMAIN d THEN d[name] ELSE default

\* v > c in Python for v a float or None and c tenths: comparing None
\* with a float raises TypeError.
Greater(v, c) == IF v = None THEN "TypeError" ELSE IF v > c THEN "True" ELSE "False"

Explained(text) == [outcome |-> "returned", text |-> text]

\* (the warning sign that opens both texts in the source is left out)
generate_explanation(risk_level, sig) ==
    IF risk_level = "high"
    THEN LET explanation == "HIGH RISK - DO NOT PROCEED. "
             last == "We strongly recommend leaving this website."
             upi == Greater(Get(sig, "upiScam", 0), 7)
             otp == Greater(Get(sig, "otpMisuse", 0), 7)
             urlp == Greater(Get(sig, "urlPhishing", 0), 7)
         IN  CASE upi = "TypeError" -> Raise("TypeError", "_generate_explanation")
               [] upi = "True" ->
                    Explained(explanation \o "This appears to be a UPI scam. " \o last)
               [] otp = "TypeError" -> Raise("TypeError", "_generate_explanation")
               [] otp = "True" ->
                    Explained(explanation
                        \o "This site is asking for sensitive information but is not trustworthy. "
                        \o last)
               [] urlp = "TypeError" -> Raise("TypeError", "_generate_explanation")
               [] urlp = "True" ->
                    Explained(explanation \o "The URL shows strong phishing indicators. " \o last)
               [] OTHER -> Explained(explanation \o last)
    ELSE LET explanation == "CAUTION ADVISED. "
             last == "Verify the website authenticity before proceeding."
             fin == Greater(Get(sig, "financialIntent", 0), 5)
         IN  CASE fin = "TypeError" -> Raise("TypeError", "_generate_explanation")
               [] fin = "True" ->
                    Explained(explanation \o "This page involves financial activity. " \o last)
               [] OTHER -> Explained(explanation \o last)

\* The loop of calculate over self.weights.items(): the normalized value of
\* a signal that is not None, times its weight (in 1/1000).
Normalized(sig, name) == IF name = "websiteTrust" THEN 10 - sig[name] ELSE sig[name]

total_score(self, sig) ==
    SumSeq([i \in 1..Len(weights_items) |->
              LET name == weights_items[i]
              IN  IF Get(sig, name, None) # None
                  THEN Normalized(sig, name) * self.weights[name]
                  ELSE 0])

total_weight(self, sig) ==
    SumSeq([i \in 1..Len(weights_items) |->
              LET name == weights_items[i]
              IN  IF Get(sig, name, None) # None THEN self.weights[name] ELSE 0])

\* result['risk_score'] after "Calculate final score"
weighted_score(self, sig) ==
    IF total_weight(self, sig) > 0
    THEN Frac(total_score(self, sig), 10 * total_weight(self, sig))
    ELSE Frac(0, 1)

\* "Apply financial intent multiplier", once the comparison has not raised
amplify(score, fin) ==
    IF fin = "True" THEN MinOne(Frac(13 * score.num, 10 * score.den)) ELSE score

\* A risk level whose bands exclude their lower bounds.
risk_level_of_exclusive(score) ==
    IF FracGT(score, 70) THEN "high"
    ELSE IF FracGT(score, 40) THEN "medium"
    ELSE "low"

\* "Determine risk level"
risk_level_of(score) ==
    IF FracGE(score, 70) THEN "high"
    ELSE IF FracGE(score, 40) THEN "medium"
    ELSE "low"

\* "Confidence is based on how many signals were available"
confidence_of(self, sig) ==
    Frac(Cardinality({n \in DOMAIN sig : sig[n] # None}), Cardinality(DOMAIN self.weights))

calculate(self, sig) ==
    LET fin == Greater(Get(sig, "financialIntent", 0), 5)
        risk_score == amplify(weighted_score(self, sig), fin)
        risk_level == risk_level_of(risk_score)
        explanation ==
            IF risk_level = "low"
            THEN Explained("This page appears safe based on our analysis.")
            ELSE generate_explanation(risk_level, sig)
    IN  IF fin = "TypeError" THEN Raise("TypeError", "calculate")
        ELSE IF explanation.outcome = "raised" THEN explanation
        ELSE [outcome |-> "returned",
              risk_score |-> risk_score,
              risk_level |-> risk_level,
              explanation |-> explanation.text,
              confidence |-> confidence_of(self, sig)]

(***************************************************************************)
(* Specification of RiskScorer.calculate: one call on any bundle           *)
(***************************************************************************)
\* The classifier of the email detector, seen from analyze: not loaded
\* (self.classifier is None), raising, or answering a label with a score in
\* hundredths.
NoClassifier == [kind |-> "none", label |-> "", score |-> 0]

NoEmail == [subject |-> "", body |-> "", sender_domain |-> "", classifier |-> NoClassifier]

\* The webpage, the WHOIS answer, the calls made and the request and response
\* of a run that has none; the RiskScorer object as constructed; the module
\* globals of app.py before startup (all None).
NoPage == [text |-> "", classifier |-> [kind |-> "none", phishing |-> 0]]

NoWhois ==
    [kind |-> "none",
     creation_date |-> [form |-> "none", age_hours |-> 0],
     registrar |-> [attr |-> "none", value |-> ""]]

NoRequest == [endpoint |-> "", payload |-> ""]

NoResponse == [status |-> 0, detail |-> "", body |-> [outcome |-> "none"]]

DetectorNames ==
    <<"email_detector", "url_detector", "webpage_classifier", "risk_scorer", "domain_checker">>

NoDetectors == [d \in 1..Len(DetectorNames) |-> FALSE]

AppIdle ==
    /\ page = NoPage
    /\ whois = NoWhois
    /\ scorer = RiskScorer
    /\ calls = <<>>
    /\ detectors = NoDetectors
    /\ request = NoRequest
    /\ response = NoResponse

InitRisk ==
    /\ pc = "calculate"
    /\ signals \in Bundles
    /\ url = ""
    /\ email = NoEmail
    /\ result = Pending
    /\ AppIdle

Calculate ==
    /\ pc = "calculate"
    /\ result' = calculate(scorer, signals)
    /\ pc' = "done"
    /\ UNCHANGED <<signals, url, email>>
    /\ UNCHANGED appVars

SpecRisk == InitRisk /\ [][Calculate]_vars

(***************************************************************************)
(* Specification of a RiskScorer shared by several callers: each caller    *)
(* holds a bundle (a dict) and calls calculate on it again and again, the  *)
(* calls of the callers coming in any order.  calls is the log of the      *)
(* calls made: who called, the bundle as passed and the outcome.           *)
(***************************************************************************)
Callers == 1..NumCallers

\* calculate reads the bundle with signals.get (lines 56, 74, 101-113) and
\* assigns none of its keys, and keeps the normalized value in a local: a
\* variant that stores the normalized websiteTrust back into the bundle.
signals_after_calculate_normalizing(self, sig) ==
    IF Get(sig, "websiteTrust", None) # None
    THEN [sig EXCEPT !["websiteTrust"] = 10 - @]
    ELSE sig

\* The caller's bundle once calculate is over: as it was passed.
signals_after_calculate(self, sig) == sig

\* The RiskScorer once calculate is over: calculate reads self.weights
\* (lines 55, 92) and assigns no attribute.
self_after_calculate(self, sig) == self

\* The bundles the callers hold.
CallBundles ==
    {[websiteTrust |-> 3, urlPhishing |-> 8],
     [websiteTrust |-> None, urlPhishing |-> 8, financialIntent |-> 6,
      otpMisuse |-> None, upiScam |-> None],
     [urlPhishing |-> 5, financialIntent |-> None],
     [websiteTrust |-> 10, urlPhishing |-> 0, financialIntent |-> 0,
      otpMisuse |-> 0, upiScam |-> 0]}

InitCalls ==
    /\ pc = "calls"
    /\ scorer = RiskScorer
    /\ signals \in [Callers -> CallBundles]
    /\ result = [c \in Callers |-> Pending]
    /\ calls = <<>>
    /\ url = ""
    /\ email = NoEmail
    /\ page = NoPage
    /\ whois = NoWhois
    /\ detectors = NoDetectors
    /\ request = NoRequest
    /\ response = NoResponse

\* Caller c calls scorer.calculate(signals[c]).
Call(c) ==
    /\ pc = "calls"
    /\ Len(calls) < MaxCalls
    /\ result' = [result EXCEPT ![c] = calculate(scorer, signals[c])]
    /\ signals' = [signals EXCEPT ![c] = signals_after_calculate(scorer, signals[c])]
    /\ scorer' = self_after_calculate(scorer, signals[c])
    /\ calls' = Append(calls, [caller |-> c, bundle |-> signals[c],
                               outcome |-> calculate(scorer, signals[c])])
    /\ UNCHANGED <<pc, url, email, page, whois, detectors, request, response>>

NextCalls == \E c \in Callers : Call(c)

SpecCalls == InitCalls /\ [][NextCalls]_vars

(***************************************************************************)
(* Python str operations                                                   *)
(***************************************************************************)
\* s[i-1], the i-th character
Char(s, i) == SubSeq(s, i, i)

Min(a, b) == IF a < b THEN a ELSE b

\* s[m-1:n], the m-th to the n-th character; a slice stops at the end of s
Slice(s, m, n) == IF m > Len(s) THEN "" ELSE SubSeq(s, m, Min(n, Len(s)))

\* s[i-1:], the text from the i-th character on
From(s, i) == Slice(s, i, Len(s))

\* sub in s
Contains(s, sub) == \E i \in 1..(Len(s) - Len(sub) + 1) : SubSeq(s, i, i + Len(sub) - 1) = sub

\* s.find(sub) + 1: the position of the first occurrence, 0 when there is none
Find(s, sub) ==
    IF Contains(s, sub)
    THEN CHOOSE i \in 1..(Len(s) - Len(sub) + 1) :
            /\ SubSeq(s, i, i + Len(sub) - 1) = sub
            /\ \A j \in 1..(i - 1) : SubSeq(s, j, j + Len(sub) - 1) # sub
    ELSE 0

\* s.count(c) for a single character c
Count(s, c) == Cardinality({i \in 1..Len(s) : Char(s, i) = c})

UpperCase == "ABCDEFGHIJKLMNOPQRSTUVWXYZ"

LowerCase == "abcdefghijklmnopqrstuvwxyz"

Digits == "0123456789"

LowerChar(c) == IF Contains(UpperCase, c) THEN Char(LowerCase, Find(UpperCase, c)) ELSE c

\* s.lower(): every character lowered, a half of the text at a time
RECURSIVE Lower(_)
Lower(s) ==
    IF s = "" THEN ""
    ELSE IF Len(s) = 1 THEN LowerChar(s)
    ELSE Lower(Slice(s, 1, Len(s) \div 2)) \o Lower(From(s, Len(s) \div 2 + 1))

IsDigit(c) == Contains(Digits, c)

\* c.isalnum() for an ASCII character
IsAlnum(c) == Contains(UpperCase, c) \/ Contains(LowerCase, c) \/ IsDigit(c)

(***************************************************************************)
(* URLPhishingDetector                                                     *)
(***************************************************************************)
suspicious_tlds ==
    {"tk", "ml", "ga", "cf", "gq", "pw", "cc", "top",
     "work", "click", "loan", "racing", "men", "download"}

\* urllib.parse.urlparse, as far as _extract_features reads its result: the
\* scheme is cut at the first ':' when what precedes it is a scheme name;
\* after '//' the netloc runs to the first of '/', '?', '#'; a netloc with
\* one square bracket and not the other raises ValueError; the path is what
\* is left before '#' and '?'.
IsSchemeChar(c) == IsAlnum(c) \/ c \in {"+", "-", "."}

AfterScheme(u) ==
    LET i == Find(u, ":")
    IN  IF /\ i > 1
           /\ Contains(UpperCase, Char(u, 1)) \/ Contains(LowerCase, Char(u, 1))
           /\ \A k \in 1..(i - 1) : IsSchemeChar(Char(u, k))
        THEN From(u, i + 1)
        ELSE u

\* the position of the first of '/', '?', '#' from the third character on,
\* Len + 1 when there is none
NetlocEnd(rest) ==
    LET stops == {k \in 3..Len(rest) : Char(rest, k) \in {"/", "?", "#"}}
    IN  IF stops = {} THEN Len(rest) + 1 ELSE CHOOSE k \in stops : \A j \in stops : k <= j

Before(t, c) == IF Contains(t, c) THEN Slice(t, 1, Find(t, c) - 1) ELSE t

urlparse(u) ==
    LET rest == AfterScheme(u)
        slashes == Slice(rest, 1, 2) = "//"
        netloc == IF slashes THEN Slice(rest, 3, NetlocEnd(rest) - 1) ELSE ""
        tail == IF slashes THEN From(rest, NetlocEnd(rest)) ELSE rest
    IN  IF Contains(netloc, "[") # Contains(netloc, "]")
        THEN Raise("ValueError", "urlparse")
        ELSE [outcome |-> "returned",
              netloc |-> netloc,
              path |-> Before(Before(tail, "#"), "?")]

\* re.search(r'\d{1,3}\.\d{1,3}\.\d{1,3}\.\d{1,3}', domain)
IsDigitRun(t) == t # "" /\ \A k \in 1..Len(t) : IsDigit(Char(t, k))

has_ip_search(domain) ==
    \E i \in 1..Len(domain) : \E a, b, c, d \in 1..3 :
        /\ i + a + b + c + d + 2 <= Len(domain)
        /\ IsDigitRun(SubSeq(domain, i, i + a - 1))
        /\ Char(domain, i + a) = "."
        /\ IsDigitRun(SubSeq(domain, i + a + 1, i + a + b))
        /\ Char(domain, i + a + b + 1) = "."
        /\ IsDigitRun(SubSeq(domain, i + a + b + 2, i + a + b + c + 1))
        /\ Char(domain, i + a + b + c + 2) = "."
        /\ IsDigitRun(SubSeq(domain, i + a + b + c + 3, i + a + b + c + d + 2))

\* domain.split('.')[-1]
RECURSIVE LastLabel(_)
LastLabel(t) == IF Contains(t, ".") THEN LastLabel(From(t, Find(t, ".") + 1)) ELSE t

\* 1000 * log2(k), rounded, for k = 1..64
Log2Milli ==
    <<0, 1000, 1585, 2000, 2322, 2585, 2807, 3000, 3170, 3322, 3459, 3585, 3700, 3807, 3907,
      4000, 4087, 4170, 4248, 4322, 4392, 4459, 4524, 4585, 4644, 4700, 4755, 4807, 4858,
      4907, 4954, 5000, 5044, 5087, 5129, 5170, 5209, 5248, 5285, 5322, 5358, 5392, 5426,
      5459, 5492, 5524, 5555, 5585, 5615, 5644, 5672, 5700, 5728, 5755, 5781, 5807, 5833,
      5858, 5883, 5907, 5931, 5954, 5977, 6000>>

RECURSIVE SumOver(_, _)
SumOver(f, S) ==
    IF S = {} THEN 0 ELSE LET x == CHOOSE y \in S : TRUE IN f[x] + SumOver(f, S \ {x})

\* Shannon entropy of text in thousandths of a bit:
\* - sum over the characters of (count/length) * log2(count/length)
calculate_entropy(text) ==
    IF text = "" THEN 0
    ELSE LET length == Len(text)
             frequencies == [c \in {Char(text, i) : i \in 1..length} |-> Count(text, c)]
         IN  SumOver([c \in DOMAIN frequencies |->
                        frequencies[c] * (Log2Milli[length] - Log2Milli[frequencies[c]])],
                     DOMAIN frequencies) \div length

get_default_features ==
    [length |-> 0, num_dots |-> 0, has_ip |-> FALSE, suspicious_tld |-> FALSE,
     domain_entropy |-> 0]

extract_features(u) ==
    LET parsed == urlparse(u)
        domain == parsed.netloc
        tld == IF Contains(domain, ".") THEN LastLabel(domain) ELSE ""
    IN  IF parsed.outcome = "raised"
        THEN get_default_features
        ELSE [length |-> Len(u),
              domain_length |-> Len(domain),
              path_length |-> Len(parsed.path),
              num_dots |-> Count(u, "."),
              num_hyphens |-> Count(u, "-"),
              num_underscores |-> Count(u, "_"),
              num_slashes |-> Count(u, "/"),
              num_questionmarks |-> Count(u, "?"),
              num_equals |-> Count(u, "="),
              num_at |-> Count(u, "@"),
              num_ampersands |-> Count(u, "&"),
              has_ip |-> has_ip_search(domain),
              num_subdomains |->
                  IF Contains(domain, ".") THEN (Count(domain, ".") + 1) - 2 ELSE 0,
              tld |-> tld,
              suspicious_tld |-> Lower(tld) \in suspicious_tlds,
              has_punycode |-> Contains(domain, "xn--"),
              has_port |-> Contains(domain, ":"),
              domain_entropy |-> calculate_entropy(domain),
              special_chars |->
                  Cardinality({i \in 1..Len(domain) :
                                 ~IsAlnum(Char(domain, i)) /\ Char(domain, i) \notin {".", "-"}})]

\* The rules of analyze, in the order of the code: the feature each reads
\* first, whether it fires, what it adds (hundredths) and its reason.
rule_key ==
    <<"length", "has_ip", "num_subdomains", "num_at", "num_hyphens", "suspicious_tld",
      "has_punycode", "domain_entropy">>

rule_fires(features, k) ==
    CASE k = 1 -> features.length > 75
      [] k = 2 -> features.has_ip
      [] k = 3 -> features.num_subdomains > 3
      [] k = 4 -> features.num_at > 0
      [] k = 5 -> features.num_hyphens > 3
      [] k = 6 -> features.suspicious_tld
      [] k = 7 -> features.has_punycode
      [] k = 8 -> features.domain_entropy > 4500

\* The contributions with the IP rule weighing what the length rule weighs.
rule_score_ip_as_length == <<20, 20, 25, 25, 15, 20, 25, 20>>

rule_score == <<20, 30, 25, 25, 15, 20, 25, 20>>

rule_reason(features, k) ==
    CASE k = 1 -> "Unusually long URL"
      [] k = 2 -> "URL contains IP address"
      [] k = 3 -> "Too many subdomains (" \o ToString(features.num_subdomains) \o ")"
      [] k = 4 -> "URL contains @ symbol (redirect)"
      [] k = 5 -> "Excessive hyphens in URL"
      [] k = 6 -> "Suspicious domain extension: ." \o features.tld
      [] k = 7 -> "Punycode detected (possible homograph attack)"
      [] k = 8 -> "Domain appears randomly generated"

\* The rule-based scoring from rule k on; features[key] of a key the record
\* lacks raises KeyError.
RECURSIVE score_rules(_, _, _, _)
score_rules(features, k, score, reasons) ==
    IF k > Len(rule_key) THEN [outcome |-> "returned", score |-> score, reasons |-> reasons]
    ELSE IF rule_key[k] \notin DOMAIN features THEN Raise("KeyError", "analyze")
    ELSE IF rule_fires(features, k)
    THEN score_rules(features, k + 1, score + rule_score[k],
                     Append(reasons, rule_reason(features, k)))
    ELSE score_rules(features, k + 1, score, reasons)

\* result['is_phishing'] = result['phishing_score'] > 0.6
url_is_phishing(phishing_score) == phishing_score > 60

\* URLPhishingDetector.analyze with self.model None
analyze_url(u) ==
    LET features == extract_features(u)
        scored == score_rules(features, 1, 0, <<>>)
    IN  IF scored.outcome = "raised" THEN scored
        ELSE [outcome |-> "returned",
              phishing_score |-> Min(scored.score, 100),
              is_phishing |-> url_is_phishing(Min(scored.score, 100)),
              reasons |-> scored.reasons,
              features |-> features]

\* The URLs analysed: [scheme][userinfo][subdomains]host[tld][path].
LongPath == "/pppppppppp/pppppppppp/pppppppppp/pppppppppp/pppppppppp/pppppppppp/pppppppppp"

Urls ==
    {sch \o usr \o sub \o host \o tld \o path :
        sch \in {"http://", ""},
        usr \in {"", "u@"},
        sub \in {"", "a.b.c.d."},
        host \in {"example", "192.168.1.1", "xn--e1a", "abcdefghijklmnopqrstuvwxyz0123456789",
                  "[::1"},
        tld \in {"", ".com", ".tk", ".TK"},
        path \in {"", "/login?x=1", "/a-b-c-d-e", LongPath}}

InitUrl ==
    /\ pc = "analyze_url"
    /\ url \in Urls
    /\ signals = <<>>
    /\ email = NoEmail
    /\ result = Pending
    /\ AppIdle

AnalyzeUrl ==
    /\ pc = "analyze_url"
    /\ result' = analyze_url(url)
    /\ pc' = "done"
    /\ UNCHANGED <<signals, url, email>>
    /\ UNCHANGED appVars

SpecUrl == InitUrl /\ [][AnalyzeUrl]_vars

(***************************************************************************)
(* EmailPhishingDetector                                                   *)
(***************************************************************************)
\* A regular expression of the detector is kept as the texts it matches, in
\* the order the regex engine tries them at one position (an optional part
\* first with it, then without; alternatives left to right).  "#" stands
\* for \d+, a longest run of digits.
urgency_patterns ==
    <<
      <<"urgently", "urgent">>,
      <<"immediately", "immediate">>,
      <<"act now">>,
      <<"within # hours", "within # hour">>,
      <<"expires today", "expires soon", "expires now", "expire today", "expire soon", 
        "expire now">>,
      <<"limited time">>,
      <<"account will be suspended", "account will be closed", 
        "account will be blocked", "account has been suspended", 
        "account has been closed", "account has been blocked", "account suspended", 
        "account closed", "account blocked">>,
      <<"verify immediately", "verify now", "verify your account">>,
      <<"action required">>,
      <<"security alert">>,
      <<"unusual activity">>
    >>

\* The fear list with a pattern for "suspended" in it.
fear_patterns_with_suspended ==
    <<
      <<"suspended">>,
      <<"blocked">>,
      <<"frozen">>,
      <<"compromised">>,
      <<"unauthorized">>,
      <<"suspicious activity">>,
      <<"fraudulent activity", "fraudulent transaction", "fraud activity", 
        "fraud transaction">>,
      <<"legal action">>,
      <<"lose access">>,
      <<"permanently", "permanent">>,
      <<"cancelled", "cancellation", "cancel">>
    >>

fear_patterns ==
    <<
      <<"blocked">>,
      <<"frozen">>,
      <<"compromised">>,
      <<"unauthorized">>,
      <<"suspicious activity">>,
      <<"fraudulent activity", "fraudulent transaction", "fraud activity", 
        "fraud transaction">>,
      <<"legal action">>,
      <<"lose access">>,
      <<"permanently", "permanent">>,
      <<"cancelled", "cancellation", "cancel">>
    >>

reward_patterns ==
    <<
      <<"won">>,
      <<"winner">>,
      <<"prize">>,
      <<"reward">>,
      <<"cash back", "cashback">>,
      <<"free">>,
      <<"claim now", "claim your">>,
      <<"congratulations">>,
      <<"you've been selected", "you have been selected">>,
      <<"lottery">>,
      <<"bonus">>,
      <<"gift card">>
    >>

bank_keywords ==
    <<"bank", "banking", "account", "netbanking", "internet banking",
      "upi", "paytm", "phonepe", "gpay", "google pay",
      "transaction", "payment", "otp", "cvv", "debit", "credit">>

\* The length of the run of digits of text that starts at position i.
RECURSIVE DigitRun(_, _)
DigitRun(text, i) ==
    IF i <= Len(text) /\ IsDigit(Char(text, i)) THEN 1 + DigitRun(text, i + 1) ELSE 0

\* What alternative alt matches of text at position i, "" when it does not.
MatchAt(text, i, alt) ==
    IF Contains(alt, "#")
    THEN LET pre == Slice(alt, 1, Find(alt, "#") - 1)
             post == From(alt, Find(alt, "#") + 1)
             run == DigitRun(text, i + Len(pre))
             j == i + Len(pre) + run
         IN  IF /\ Slice(text, i, i + Len(pre) - 1) = pre
                /\ run > 0
                /\ Slice(text, j, j + Len(post) - 1) = post
             THEN Slice(text, i, j + Len(post) - 1)
             ELSE ""
    ELSE IF Slice(text, i, i + Len(alt) - 1) = alt THEN alt ELSE ""

\* re.search(pattern, text).group(0): the match at the leftmost position
\* where the pattern matches, "" when re.search returns None.
re_search(pattern, text) ==
    LET hits == {i \in 1..Len(text) : \E k \in 1..Len(pattern) : MatchAt(text, i, pattern[k]) # ""}
    IN  IF hits = {} THEN ""
        ELSE LET i == CHOOSE h \in hits : \A g \in hits : h <= g
                 k == CHOOSE a \in 1..Len(pattern) :
                         /\ MatchAt(text, i, pattern[a]) # ""
                         /\ \A b \in 1..(a - 1) : MatchAt(text, i, pattern[b]) = ""
             IN  MatchAt(text, i, pattern[k])

RECURSIVE find_patterns_from(_, _, _)
find_patterns_from(text, patterns, n) ==
    IF n > Len(patterns) THEN <<>>
    ELSE LET match == re_search(patterns[n], text)
         IN  (IF match # "" THEN <<match>> ELSE <<>>) \o find_patterns_from(text, patterns, n + 1)

find_patterns(text, patterns) == find_patterns_from(text, patterns, 1)

\* The banks of _check_sender_domain_mismatch, in the order of the dict.
banks ==
    << [name |-> "sbi", valid_domains |-> <<"sbi.co.in">>],
       [name |-> "hdfc", valid_domains |-> <<"hdfcbank.com">>],
       [name |-> "icici", valid_domains |-> <<"icicibank.com">>],
       [name |-> "axis", valid_domains |-> <<"axisbank.com">>],
       [name |-> "paytm", valid_domains |-> <<"paytm.com">>],
       [name |-> "phonepe", valid_domains |-> <<"phonepe.com">>] >>

\* not any(valid in sender_domain for valid in valid_domains)
domain_differs(sender_domain, valid_domains) ==
    ~\E v \in 1..Len(valid_domains) : Contains(sender_domain, valid_domains[v])

\* The index of the first bank named in the text whose domains the sender's
\* does not match, 0 when the function returns None.
check_sender_domain_mismatch(text, sender_domain) ==
    LET found == {b \in 1..Len(banks) :
                    /\ Contains(text, banks[b].name)
                    /\ domain_differs(sender_domain, banks[b].valid_domains)}
    IN  IF found = {} THEN 0 ELSE CHOOSE b \in found : \A c \in found : b <= c

UpperChar(c) == IF Contains(LowerCase, c) THEN Char(UpperCase, Find(LowerCase, c)) ELSE c

\* s.upper()
RECURSIVE Upper(_)
Upper(s) == IF s = "" THEN "" ELSE UpperChar(Char(s, 1)) \o Upper(From(s, 2))

\* ', '.join(matches[:2])
JoinFirstTwo(matches) ==
    IF Len(matches) = 1 THEN matches[1] ELSE matches[1] \o ", " \o matches[2]

\* if ml_result['label'] == 'NEGATIVE' and ml_result['score'] > 0.7; a
\* classifier that raises is caught and adds nothing.
ml_suspicious(classifier) ==
    /\ classifier.kind = "result"
    /\ classifier.label = "NEGATIVE"
    /\ classifier.score > 70

\* A threshold that takes 0.5 itself for phishing.
email_is_phishing_inclusive(phishing_score) == phishing_score >= 50

\* result['is_phishing'] = result['phishing_score'] > 0.5
email_is_phishing(phishing_score) == phishing_score > 50

\* EmailPhishingDetector.analyze; the score is in hundredths.
analyze_email(e) ==
    LET text == Lower(e.subject \o " " \o e.body)
        urgency_matches == find_patterns(text, urgency_patterns)
        fear_matches == find_patterns(text, fear_patterns)
        reward_matches == find_patterns(text, reward_patterns)
        financial_keywords ==
            SelectSeq(bank_keywords, LAMBDA kw : Contains(text, kw))
        mismatch ==
            IF e.sender_domain # ""
            THEN check_sender_domain_mismatch(text, e.sender_domain)
            ELSE 0
        score ==
              (IF urgency_matches # <<>> THEN 30 ELSE 0)
            + (IF fear_matches # <<>> THEN 30 ELSE 0)
            + (IF reward_matches # <<>> THEN 25 ELSE 0)
            + (IF financial_keywords # <<>> THEN 15 ELSE 0)
            + (IF mismatch # 0 THEN 40 ELSE 0)
            + (IF ml_suspicious(e.classifier) THEN 20 ELSE 0)
        reasons ==
               (IF urgency_matches # <<>>
                THEN <<"Urgency tactics detected: " \o JoinFirstTwo(urgency_matches)>>
                ELSE <<>>)
            \o (IF fear_matches # <<>>
                THEN <<"Fear/threat language: " \o JoinFirstTwo(fear_matches)>>
                ELSE <<>>)
            \o (IF reward_matches # <<>>
                THEN <<"Reward/prize language: " \o JoinFirstTwo(reward_matches)>>
                ELSE <<>>)
            \o (IF Len(financial_keywords) >= 3
                THEN <<"Multiple financial keywords detected">>
                ELSE <<>>)
            \o (IF mismatch # 0
                THEN <<"Sender domain mismatch: claims to be " \o Upper(banks[mismatch].name)
                          \o " but from " \o e.sender_domain>>
                ELSE <<>>)
            \o (IF ml_suspicious(e.classifier)
                THEN <<"ML model detected suspicious content">>
                ELSE <<>>)
    IN  [outcome |-> "returned",
         phishing_score |-> Min(score, 100),
         is_phishing |-> email_is_phishing(Min(score, 100)),
         reasons |-> reasons,
         pattern_matches |-> [urgency |-> urgency_matches,
                              fear |-> fear_matches,
                              reward |-> reward_matches,
                              financial |-> financial_keywords]]

\* The emails analysed.
Subjects ==
    {"", "URGENT: your account will be suspended", "Hello from a friend",
     "You won a prize", "HDFC alert", "Action required"}

Bodies ==
    {"", "Your card is blocked. Verify now within 24 hours.",
     "Claim your free cashback via Paytm UPI payment",
     "See you at lunch tomorrow",
     "Unauthorized transaction on your SBI account"}

SenderDomains == {"", "hdfcbank.com", "hdfcbank.com.evil.tk", "evil.tk", "sbi.co.in", "paytm.com"}

Classifiers ==
    {NoClassifier,
     [kind |-> "raises", label |-> "", score |-> 0],
     [kind |-> "result", label |-> "NEGATIVE", score |-> 90],
     [kind |-> "result", label |-> "NEGATIVE", score |-> 70],
     [kind |-> "result", label |-> "POSITIVE", score |-> 90]}

Emails ==
    [subject : Subjects, body : Bodies, sender_domain : SenderDomains, classifier : Classifiers]

InitEmail ==
    /\ pc = "analyze_email"
    /\ email \in Emails
    /\ signals = <<>>
    /\ url = ""
    /\ result = Pending
    /\ AppIdle

AnalyzeEmail ==
    /\ pc = "analyze_email"
    /\ result' = analyze_email(email)
    /\ pc' = "done"
    /\ UNCHANGED <<signals, url, email>>
    /\ UNCHANGED appVars

SpecEmail == InitEmail /\ [][AnalyzeEmail]_vars

(***************************************************************************)
(* WebpageClassifier (detectors/webpage_classifier.py)                     *)
(*                                                                         *)
(* phishing_score is in ten-thousandths (0.45 is 4500), so that the blend  *)
(* score * 0.6 + m * 0.4 of two numbers of hundredths is an integer;       *)
(* the ML score m and confidence are in hundredths.  The zero-shot model   *)
(* is a collaborator: page.classifier says what it does when called, its   *)
(* kind being "none" (self.classifier is None), "raises", "nolabel" (the   *)
(* phishing category is not among the labels returned) or "result" (the    *)
(* phishing category has score page.classifier.phishing).                  *)
(***************************************************************************)
financial_keywords ==
    <<"bank", "banking", "login", "password", "otp", "cvv", "pin",
      "upi", "payment", "transaction", "account", "netbanking",
      "debit", "credit", "card number", "transfer", "balance">>

phishing_indicators ==
    <<"verify your account", "confirm your identity", "urgent action",
      "suspended account", "unusual activity", "click here immediately",
      "enter your password", "update your information">>

\* text[:1000] keeps this many characters.
text_sample_length == 1000

\* _count_keywords: how many keywords of the list appear in the text.
count_keywords(text, keywords) ==
    Cardinality({k \in 1..Len(keywords) : Contains(text, keywords[k])})

\* Half the weight on each side of the blend.
blend_even(score, ml_phishing_score) == score * 50 + ml_phishing_score * 50

\* score = (score * 0.6) + (ml_phishing_score * 0.4), score in hundredths
blend(score, ml_phishing_score) == score * 60 + ml_phishing_score * 40

\* WebpageClassifier.classify; url is not used by the code.
classify(p) ==
    LET text_sample == Lower(Slice(p.text, 1, text_sample_length))
        financial_score == count_keywords(text_sample, financial_keywords)
        phishing_score == count_keywords(text_sample, phishing_indicators)
        rule_based ==
              (IF phishing_score > 0 THEN Min(phishing_score * 15, 40) ELSE 0)
            + (IF financial_score > 0 /\ phishing_score > 0 THEN 30 ELSE 0)
        blended == p.classifier.kind = "result"
        score ==
            IF blended THEN blend(rule_based, p.classifier.phishing)
            ELSE rule_based * 100
    IN  [outcome |-> "returned",
         is_financial |-> financial_score >= 3,
         is_phishing |-> Min(score, 10000) > 5000,
         phishing_score |-> Min(score, 10000),
         confidence |-> IF blended THEN p.classifier.phishing ELSE 0,
         category |-> IF financial_score >= 3 THEN "financial" ELSE "unknown"]

\* n copies of s, one after the other.
RECURSIVE Repeat(_, _)
Repeat(s, n) ==
    IF n = 0 THEN ""
    ELSE IF n % 2 = 0 THEN LET half == Repeat(s, n \div 2) IN half \o half
    ELSE s \o Repeat(s, n - 1)

\* The pages classified: short pages with none to three indicators, and
\* pages with an indicator ending on, straddling and past the end of the
\* sample.
PageTexts ==
    {"",
     "Please VERIFY YOUR ACCOUNT",
     "Verify your account: enter your password for bank login",
     "Urgent action: confirm your identity, verify your account",
     "We noticed unusual activity",
     "Bank login and password",
     Repeat("x", text_sample_length - 19) \o "verify your account",
     Repeat("x", text_sample_length - 10) \o "verify your account",
     Repeat("x", text_sample_length) \o "verify your account"}

PageClassifiers ==
    {[kind |-> "none", phishing |-> 0],
     [kind |-> "raises", phishing |-> 0],
     [kind |-> "nolabel", phishing |-> 0]}
    \cup [kind : {"result"}, phishing : {0, 35, 50, 90, 100}]

Pages == [text : PageTexts, classifier : PageClassifiers]

InitWebpage ==
    /\ pc = "classify"
    /\ page \in Pages
    /\ signals = <<>>
    /\ url = ""
    /\ email = NoEmail
    /\ result = Pending
    /\ whois = NoWhois
    /\ scorer = RiskScorer
    /\ calls = <<>>
    /\ detectors = NoDetectors
    /\ request = NoRequest
    /\ response = NoResponse

Classify ==
    /\ pc = "classify"
    /\ result' = classify(page)
    /\ pc' = "done"
    /\ UNCHANGED <<signals, url, email>>
    /\ UNCHANGED appVars

SpecWebpage == InitWebpage /\ [][Classify]_vars

(***************************************************************************)
(* DomainChecker.check_age (utils/domain_checker.py)                       *)
(*                                                                         *)
(* The WHOIS library is a collaborator: the variable whois says what       *)
(* whois.whois(clean_domain) does for the domain asked about.  Its kind is *)
(* "raises" (the lookup raises) or "record"; a record has                  *)
(*   creation_date.form  "none" (None), "datetime", "list" (a list whose   *)
(*                       first element is the datetime), "empty_list", or  *)
(*                       "str" (a date the library could not parse);       *)
(*   creation_date.age_hours  datetime.now() - creation_date in whole      *)
(*                       hours, negative for a timestamp in the future;    *)
(*   registrar.attr      "value", "none" (the attribute is None) or        *)
(*                       "raises" (reading the attribute raises).          *)
(* A str that is absent (None) is NoneStr.  The cleaning of the domain     *)
(* name only chooses what is looked up and is not modelled.                *)
(***************************************************************************)
NoneStr == "None"

\* self.new_domain_threshold_days = 90
new_domain_threshold_days == 90

\* timedelta.days: whole days, rounded down (so -1 for one hour ahead).
days(age_hours) == age_hours \div 24

\* creation_date.isoformat(), written relative to the time of the call.
isoformat(age_hours) ==
    IF age_hours >= 0 THEN "now-" \o ToString(age_hours) \o "h"
    ELSE "now+" \o ToString(0 - age_hours) \o "h"

\* result['is_new'] = age.days < self.new_domain_threshold_days
is_new(age_days) == age_days < new_domain_threshold_days

\* The result dict as check_age creates it.
default_result ==
    [outcome |-> "returned", age_days |-> -1, is_new |-> FALSE,
     registration_date |-> NoneStr, registrar |-> NoneStr]

\* The except block: only age_days and is_new are set back.
on_error(partial) == [partial EXCEPT !.age_days = -1, !.is_new = FALSE]

\* DomainChecker.check_age for the WHOIS answer w.
check_age(w) ==
    IF w.kind = "raises" THEN on_error(default_result)
    ELSE LET cd == w.creation_date
         IN  IF cd.form = "empty_list" THEN on_error(default_result)
             ELSE IF cd.form = "none" THEN default_result
             ELSE IF cd.form = "str" THEN on_error(default_result)
             ELSE LET dated ==
                          [default_result EXCEPT
                              !.age_days = days(cd.age_hours),
                              !.registration_date = isoformat(cd.age_hours),
                              !.is_new = is_new(days(cd.age_hours))]
                  IN  IF w.registrar.attr = "raises" THEN on_error(dated)
                      ELSE IF w.registrar.attr = "none" THEN dated
                      ELSE [dated EXCEPT !.registrar = w.registrar.value]

\* The WHOIS answers tried: ages around 0 and around the threshold.
AgeHours ==
    {-25, -1, 0, 1,
     24 * (new_domain_threshold_days - 1), 24 * new_domain_threshold_days - 1,
     24 * new_domain_threshold_days, 24 * (new_domain_threshold_days + 1), 24 * 400}

CreationDates ==
    {[form |-> "none", age_hours |-> 0],
     [form |-> "empty_list", age_hours |-> 0],
     [form |-> "str", age_hours |-> 0]}
    \cup [form : {"datetime", "list"}, age_hours : AgeHours]

Registrars ==
    {[attr |-> "value", value |-> "Example Registrar, Inc."],
     [attr |-> "none", value |-> ""],
     [attr |-> "raises", value |-> ""]}

WhoisAnswers ==
    {[kind |-> "raises",
      creation_date |-> [form |-> "none", age_hours |-> 0],
      registrar |-> [attr |-> "none", value |-> ""]]}
    \cup [kind : {"record"}, creation_date : CreationDates, registrar : Registrars]

InitDomain ==
    /\ pc = "check_age"
    /\ whois \in WhoisAnswers
    /\ signals = <<>>
    /\ url = ""
    /\ email = NoEmail
    /\ result = Pending
    /\ page = NoPage
    /\ scorer = RiskScorer
    /\ calls = <<>>
    /\ detectors = NoDetectors
    /\ request = NoRequest
    /\ response = NoResponse

CheckAge ==
    /\ pc = "check_age"
    /\ result' = check_age(whois)
    /\ pc' = "done"
    /\ UNCHANGED <<signals, url, email>>
    /\ UNCHANGED appVars

SpecDomain == InitDomain /\ [][CheckAge]_vars

(***************************************************************************)
(* The API application (app.py)                                            *)
(*                                                                         *)
(* detectors[d] says whether the d-th global of DetectorNames is set (not  *)
(* None).  The startup handler runs to its end before the first request    *)
(* is served; every endpoint handler is one action.  request is the last   *)
(* request served, response its HTTP response, and calls the detector      *)
(* calls its handler made.  The text of an exception raised by a detector  *)
(* is written as the name of its class.                                    *)
(***************************************************************************)
NoBody == [outcome |-> "none"]

\* What startup_event can meet: the imports (0) or the constructor of the
\* d-th detector raise for the members of the set.
StartupFailures == SUBSET (0..Len(DetectorNames))

\* A startup that goes on to the next detector when a constructor raises.
RECURSIVE initialize_from_skipping(_, _, _)
initialize_from_skipping(d, failing, initialized) ==
    IF d > Len(DetectorNames) THEN initialized
    ELSE IF d \in failing THEN initialize_from_skipping(d + 1, failing, initialized)
    ELSE initialize_from_skipping(d + 1, failing, [initialized EXCEPT ![d] = TRUE])

\* Lines 71-84 from the d-th constructor on: the first one that raises
\* leaves the try block, and the except block only logs.
RECURSIVE initialize_from(_, _, _)
initialize_from(d, failing, initialized) ==
    IF d > Len(DetectorNames) THEN initialized
    ELSE IF d \in failing THEN initialized
    ELSE initialize_from(d + 1, failing, [initialized EXCEPT ![d] = TRUE])

\* startup_event: the imports, then the constructors.
startup_event(failing, globals) ==
    IF 0 \in failing THEN globals ELSE initialize_from(1, failing, globals)

\* str(e) for e = HTTPException(status_code, detail): "status: detail" where
\* the class defines __str__, empty where it does not (older releases of the
\* framework); either can be installed.
HTTPExceptionStr(status_code, detail) == {ToString(status_code) \o ": " \o detail, ""}

\* What a handler answers when the detector's call is over: the result, or
\* HTTP 500 from the except block when the call raised.
Respond(outcome) ==
    IF outcome.outcome = "raised"
    THEN [status |-> 500, detail |-> outcome.error, body |-> NoBody]
    ELSE [status |-> 200, detail |-> "", body |-> outcome]

\* The handler's answer when its detector is None: the HTTPException(503)
\* raised inside the try block is an Exception, so the except block catches
\* it and raises HTTPException(500, detail=str(e)).
NotInitialized(detail) ==
    {[status |-> 500, detail |-> text, body |-> NoBody] :
        text \in HTTPExceptionStr(503, detail)}

\* The requests sent.
ApiEmails ==
    {[subject |-> "URGENT: your account will be suspended", body |-> "",
      sender_domain |-> "", classifier |-> NoClassifier],
     [subject |-> "HDFC alert", body |-> "",
      sender_domain |-> "evil.tk", classifier |-> NoClassifier],
     [subject |-> "You won a prize", body |-> "See you at lunch tomorrow",
      sender_domain |-> "", classifier |-> NoClassifier]}

ApiUrls ==
    {"http://192.168.1.1/login?x=1", "http://[::1", "https://example.com",
     "http://u@a.b.c.d.xn--e1a.tk/a-b-c-d-e"}

ApiPages ==
    {[text |-> "Verify your account: enter your password for bank login",
      classifier |-> [kind |-> "none", phishing |-> 0]],
     [text |-> "", classifier |-> [kind |-> "result", phishing |-> 90]],
     [text |-> "We noticed unusual activity", classifier |-> [kind |-> "raises", phishing |-> 0]]}

\* RiskScoreRequest: every field is Optional and None when left out.
ApiRiskRequests ==
    [websiteTrust : {3, None}, urlPhishing : {8}, financialIntent : {0, 6, None},
     otpMisuse : {0}, upiScam : {0, None}]

ApiWhoisAnswers ==
    {[kind |-> "raises",
      creation_date |-> [form |-> "none", age_hours |-> 0],
      registrar |-> [attr |-> "none", value |-> ""]],
     [kind |-> "record",
      creation_date |-> [form |-> "datetime", age_hours |-> 240],
      registrar |-> [attr |-> "value", value |-> "Example Registrar, Inc."]],
     [kind |-> "record",
      creation_date |-> [form |-> "list", age_hours |-> 9600],
      registrar |-> [attr |-> "none", value |-> ""]],
     [kind |-> "record",
      creation_date |-> [form |-> "datetime", age_hours |-> -1],
      registrar |-> [attr |-> "raises", value |-> ""]]}

InitApp ==
    /\ pc = "startup"
    /\ detectors = NoDetectors
    /\ request = NoRequest
    /\ response = NoResponse
    /\ calls = <<>>
    /\ scorer = RiskScorer
    /\ signals = <<>>
    /\ url = ""
    /\ email = NoEmail
    /\ page = NoPage
    /\ whois = NoWhois
    /\ result = Pending

\* What no handler of the application touches.
AppFrame == UNCHANGED <<scorer, signals, url, email, page, whois, result>>

Startup ==
    /\ pc = "startup"
    /\ \E failing \in StartupFailures :
           detectors' = startup_event(failing, detectors)
    /\ pc' = "serving"
    /\ UNCHANGED <<request, response, calls>>
    /\ AppFrame

\* An endpoint whose detector is the d-th: the answer when the detector is
\* None, else the detector's call and the answer made from its outcome.
Serve(endpoint, payload, d, detail, outcome) ==
    /\ pc = "serving"
    /\ request' = [endpoint |-> endpoint, payload |-> payload]
    /\ IF ~detectors[d]
       THEN /\ response' \in NotInitialized(detail)
            /\ calls' = <<>>
       ELSE /\ response' = Respond(outcome)
            /\ calls' = <<DetectorNames[d]>>
    /\ UNCHANGED <<pc, detectors>>
    /\ AppFrame

Root ==
    /\ pc = "serving"
    /\ request' = [endpoint |-> "/", payload |-> ""]
    /\ response' = [status |-> 200, detail |-> "", body |-> [status |-> "online"]]
    /\ calls' = <<>>
    /\ UNCHANGED <<pc, detectors>>
    /\ AppFrame

Health ==
    /\ pc = "serving"
    /\ request' = [endpoint |-> "/health", payload |-> ""]
    /\ response' = [status |-> 200, detail |-> "",
                    body |-> [status |-> "healthy", models |-> detectors]]
    /\ calls' = <<>>
    /\ UNCHANGED <<pc, detectors>>
    /\ AppFrame

ApiAnalyzeEmail ==
    \E e \in ApiEmails :
        Serve("/api/analyze/email", e, 1, "Email detector not initialized", analyze_email(e))

ApiAnalyzeUrl ==
    \E u \in ApiUrls :
        Serve("/api/analyze/url", u, 2, "URL detector not initialized", analyze_url(u))

ApiAnalyzeWebpage ==
    \E p \in ApiPages :
        Serve("/api/analyze/webpage", p, 3, "Webpage classifier not initialized", classify(p))

ApiRiskScore ==
    \E r \in ApiRiskRequests :
        Serve("/api/risk-score", r, 4, "Risk scorer not initialized", calculate(scorer, r))

ApiDomainAge ==
    \E w \in ApiWhoisAnswers :
        Serve("/api/domain-age/{domain}", w, 5, "Domain checker not initialized", check_age(w))

NextApp ==
    \/ Startup
    \/ Root
    \/ Health
    \/ ApiAnalyzeEmail
    \/ ApiAnalyzeUrl
    \/ ApiAnalyzeWebpage
    \/ ApiRiskScore
    \/ ApiDomainAge

SpecApp == InitApp /\ [][NextApp]_vars

(***************************************************************************)
(* Claims about RiskScorer.calculate, checked under SpecRisk               *)
(***************************************************************************)
Done == pc = "done"

Returned == pc = "done" /\ result.outcome = "returned"

\* The signals of the bundle that are present: in the dict and not None.
Present(sig) == {n \in DOMAIN sig : sig[n] # None}

\* C1: for a bundle in which every one of the five signals is absent,
\* whether its names are missing or mapped to None, calculate raises no
\* error and returns risk_score 0.0, risk_level 'low' and confidence 0.0.
C1_AllAbsentGivesZeroLow ==
    (Done /\ Present(signals) = {}) =>
        /\ result.outcome = "returned"
        /\ result.risk_score.num = 0
        /\ result.risk_level = "low"
        /\ result.confidence.num = 0

\* C2: for every bundle whose present values lie in [0,1], calculate
\* returns risk_score in [0,1] and confidence in [0,1].
C2_ScoreAndConfidenceInUnitInterval ==
    Done =>
        /\ result.outcome = "returned"
        /\ 0 <= result.risk_score.num /\ result.risk_score.num <= result.risk_score.den
        /\ 0 <= result.confidence.num /\ result.confidence.num <= result.confidence.den

\* The weights and the normalization as C3 states them.
C3_Weight(n) ==
    CASE n = "websiteTrust" -> 25 [] n = "urlPhishing" -> 20 [] n = "financialIntent" -> 30
      [] n = "otpMisuse" -> 15 [] n = "upiScam" -> 10

C3_Normalized(sig, n) == IF n = "websiteTrust" THEN 10 - sig[n] ELSE sig[n]

RECURSIVE C3_Sum(_, _)
C3_Sum(f, S) == IF S = {} THEN 0 ELSE LET n == CHOOSE x \in S : TRUE IN f[n] + C3_Sum(f, S \ {n})

\* avg = sum(normalized_i * weight_i) / sum(weight_i of present i), and the
\* score: min(1.0, 1.3 * avg) when financialIntent is present and > 0.5,
\* avg otherwise.
C3_Expected(sig) ==
    LET P == Present(sig)
        top == C3_Sum([n \in P |-> C3_Normalized(sig, n) * C3_Weight(n)], P)
        bottom == 10 * C3_Sum([n \in P |-> C3_Weight(n)], P)
    IN  IF "financialIntent" \in P /\ sig["financialIntent"] > 5
        THEN (IF 13 * top > 10 * bottom THEN Frac(1, 1) ELSE Frac(13 * top, 10 * bottom))
        ELSE Frac(top, bottom)

FracEq(f, g) == f.num * g.den = g.num * f.den

\* C3: for every bundle with at least one present signal the risk_score is
\* the weighted average over the present signals, amplified by 1.3 and
\* clamped to 1.0 exactly when financialIntent is present and > 0.5; in
\* particular {financialIntent: 0.6, urlPhishing: 0.8} gives 0.884, high.
C3_WeightedAverageAmplified ==
    (Done /\ Present(signals) # {}) =>
        /\ result.outcome = "returned"
        /\ FracEq(result.risk_score, C3_Expected(signals))
        /\ (Present(signals) = {"financialIntent", "urlPhishing"}
              /\ signals["financialIntent"] = 6 /\ signals["urlPhishing"] = 8)
           => (FracEq(result.risk_score, Frac(884, 1000)) /\ result.risk_level = "high")

\* C4: the risk_level returned is determined by the final risk_score alone:
\* 'high' iff score >= 0.7, 'medium' iff 0.4 <= score < 0.7, 'low' iff
\* score < 0.4 (0.7 itself is high, 0.4 itself is medium).
C4_LevelFollowsScore ==
    Returned =>
        /\ result.risk_level \in {"high", "medium", "low"}
        /\ result.risk_level = "high" <=> 10 * result.risk_score.num >= 7 * result.risk_score.den
        /\ result.risk_level = "medium" <=>
              (/\ 10 * result.risk_score.num >= 4 * result.risk_score.den
               /\ 10 * result.risk_score.num < 7 * result.risk_score.den)
        /\ result.risk_level = "low" <=> 10 * result.risk_score.num < 4 * result.risk_score.den

\* A call returned a score of exactly 0.7, and its level is high.
C4_Witness ==
    /\ Returned
    /\ 10 * result.risk_score.num = 7 * result.risk_score.den
    /\ result.risk_level = "high"

\* The bundles that differ from sig in one present signal, whose normalized
\* value is larger in them.
C5_Raised(sig) ==
    {[sig EXCEPT ![p[1]] = p[2]] :
        p \in {q \in Present(sig) \X SignalValues :
                 C3_Normalized([sig EXCEPT ![q[1]] = q[2]], q[1]) > C3_Normalized(sig, q[1])}}

\* C5: calculate is monotone: raising the normalized value of one present
\* signal, the others fixed, gives a risk_score greater than or equal to
\* the first bundle's.
C5_Monotone ==
    Done =>
        \A sig2 \in C5_Raised(signals) :
            /\ result.outcome = "returned"
            /\ calculate(scorer, sig2).outcome = "returned"
            /\ FracLE(result.risk_score, calculate(scorer, sig2).risk_score)

\* The explanation C6 states, from the level and the bundle.
C6_Over(sig, n, c) == n \in Present(sig) /\ sig[n] > c

C6_Expected(level, sig) ==
    CASE level = "high" ->
            "HIGH RISK - DO NOT PROCEED. "
            \o (IF C6_Over(sig, "upiScam", 7) THEN "This appears to be a UPI scam. "
                ELSE IF C6_Over(sig, "otpMisuse", 7)
                THEN "This site is asking for sensitive information but is not trustworthy. "
                ELSE IF C6_Over(sig, "urlPhishing", 7)
                THEN "The URL shows strong phishing indicators. "
                ELSE "")
            \o "We strongly recommend leaving this website."
      [] level = "medium" ->
            "CAUTION ADVISED. "
            \o (IF C6_Over(sig, "financialIntent", 5)
                THEN "This page involves financial activity. " ELSE "")
            \o "Verify the website authenticity before proceeding."
      [] OTHER -> "This page appears safe based on our analysis."

\* C6: the explanation is chosen by the first matching rule upiScam > 0.7,
\* otpMisuse > 0.7, urlPhishing > 0.7, else the generic high text; an absent
\* signal never matches a rule and never causes an error; medium carries
\* the financial note iff financialIntent is present and > 0.5; low is the
\* fixed safe-page message.
C6_ExplanationByPriority ==
    Done =>
        /\ ~(result.outcome = "raised" /\ result.where = "_generate_explanation")
        /\ result.outcome = "returned" =>
              result.explanation = C6_Expected(result.risk_level, signals)

\* C7: the confidence equals (number of the five signals present) / 5 for
\* every bundle.
C7_ConfidenceIsPresentOverFive ==
    Done =>
        /\ result.outcome = "returned"
        /\ result.confidence.num * 5 = Cardinality(Present(signals)) * result.confidence.den

(***************************************************************************)
(* Claims about URLPhishingDetector, checked under SpecUrl                 *)
(***************************************************************************)
\* The fields of the feature record (the spec's UrlFeatures, by the names
\* the code gives them).
C8_FeatureFields ==
    {"length", "domain_length", "path_length", "num_dots", "num_hyphens", "num_underscores",
     "num_slashes", "num_at", "num_ampersands", "has_ip", "num_subdomains", "tld",
     "suspicious_tld", "has_punycode", "has_port", "domain_entropy", "special_chars"}

\* C8: for every URL, one whose parsing fails included, _extract_features
\* returns a record with every feature field populated and analyze returns
\* a result without raising.
C8_ExtractionAndAnalysisTotal ==
    Done =>
        /\ C8_FeatureFields \subseteq DOMAIN extract_features(url)
        /\ result.outcome = "returned"

\* The sum of the contributions of the rules that fire, as C9 lists them.
C9_Fires(f) ==
    <<f.length > 75, f.has_ip, f.num_subdomains > 3, f.num_at > 0, f.num_hyphens > 3,
      f.suspicious_tld, f.has_punycode, f.domain_entropy > 4500>>

C9_Contribution == <<20, 30, 25, 25, 15, 20, 25, 20>>

RECURSIVE C9_Sum(_, _)
C9_Sum(f, k) ==
    IF k > 8 THEN 0
    ELSE (IF C9_Fires(f)[k] THEN C9_Contribution[k] ELSE 0) + C9_Sum(f, k + 1)

RECURSIVE C9_Reasons(_, _)
C9_Reasons(f, k) ==
    IF k > 8 THEN <<>>
    ELSE (IF C9_Fires(f)[k] THEN <<rule_reason(f, k)>> ELSE <<>>) \o C9_Reasons(f, k + 1)

\* C9: phishing_score is min(1.0, sum of the contributions of the rules
\* that fire), one reason is appended per firing rule in the order of the
\* rules, and is_phishing is true iff phishing_score > 0.6; the URL
\* http://192.168.1.1/login?x=1 scores 0.3 and is not phishing.
C9_UrlScoreIsClampedSum ==
    /\ Returned =>
          /\ result.phishing_score = Min(100, C9_Sum(result.features, 1))
          /\ result.reasons = C9_Reasons(result.features, 1)
          /\ result.is_phishing <=> result.phishing_score > 60
    /\ (Done /\ url = "http://192.168.1.1/login?x=1") =>
          /\ result.outcome = "returned"
          /\ result.phishing_score = 30
          /\ ~result.is_phishing

\* analyze returned for http://192.168.1.1/login?x=1: the IP rule alone
\* fired.
C9_Witness ==
    /\ Returned
    /\ url = "http://192.168.1.1/login?x=1"
    /\ result.reasons = <<"URL contains IP address">>
    /\ result.phishing_score = 30

(***************************************************************************)
(* Claims about EmailPhishingDetector, checked under SpecEmail             *)
(***************************************************************************)
C10_HasReason(prefix) ==
    \E r \in 1..Len(result.reasons) : Slice(result.reasons[r], 1, Len(prefix)) = prefix

\* The sum of the terms that apply, as C10 lists them.
C10_Terms ==
      (IF result.pattern_matches.urgency # <<>> THEN 30 ELSE 0)
    + (IF result.pattern_matches.fear # <<>> THEN 30 ELSE 0)
    + (IF result.pattern_matches.reward # <<>> THEN 25 ELSE 0)
    + (IF Len(result.pattern_matches.financial) >= 1 THEN 15 ELSE 0)
    + (IF C10_HasReason("Sender domain mismatch") THEN 40 ELSE 0)
    + (IF /\ email.classifier.kind = "result"
          /\ email.classifier.label = "NEGATIVE"
          /\ email.classifier.score > 70
       THEN 20 ELSE 0)

\* C10: phishing_score is min(1.0, sum of the terms that apply), each term
\* added at most once; the score is in [0,1]; is_phishing is true iff
\* phishing_score > 0.5.
C10_EmailScoreIsClampedSum ==
    Done =>
        /\ result.outcome = "returned"
        /\ result.phishing_score = Min(100, C10_Terms)
        /\ 0 <= result.phishing_score /\ result.phishing_score <= 100
        /\ result.is_phishing <=> result.phishing_score > 50

\* analyze returned a score of exactly 0.5 (an urgency match and the ML
\* opinion), which is not phishing.
C10_Witness ==
    /\ Returned
    /\ result.pattern_matches.urgency # <<>>
    /\ email.classifier.label = "NEGATIVE" /\ email.classifier.score > 70
    /\ result.phishing_score = 50
    /\ ~result.is_phishing

\* The email of the example: the subject alone, an empty body, no sender
\* domain and no ML opinion.
C11_Example ==
    [subject |-> "URGENT: your account will be suspended", body |-> "",
     sender_domain |-> "", classifier |-> NoClassifier]

\* C11 as stated: for the example email analyze finds an urgency match and a
\* fear match, so the score is at least 0.5 and is_phishing is true.
C11_UrgencyAndFearGivePhishing ==
    (Done /\ email = C11_Example) =>
        /\ result.pattern_matches.urgency # <<>>
        /\ result.pattern_matches.fear # <<>>
        /\ result.phishing_score >= 50
        /\ result.is_phishing

\* C11 amended: for the example email analyze finds the urgency matches
\* "urgent" and "account will be suspended" (+0.3) and the financial keyword
\* "account" (+0.15) and no fear match, so the score is 0.45, below the
\* threshold, and is_phishing is false.
C11_UrgencyAndKeywordGiveNoPhishing ==
    (Done /\ email = C11_Example) =>
        /\ result.pattern_matches.urgency = <<"urgent", "account will be suspended">>
        /\ result.pattern_matches.fear = <<>>
        /\ result.pattern_matches.reward = <<>>
        /\ result.pattern_matches.financial = <<"account">>
        /\ result.reasons = <<"Urgency tactics detected: urgent, account will be suspended">>
        /\ result.phishing_score = 45
        /\ ~result.is_phishing

\* analyze returned for the example email with the urgency term counted.
C11_Witness ==
    /\ Returned
    /\ email = C11_Example
    /\ C10_HasReason("Urgency tactics detected")
    /\ result.phishing_score = 45

\* Some brand keyword occurs in the text of the email and the sender's
\* domain is not one of that brand's known domains.
C12_BrandClaimedFromOtherDomain ==
    LET text == Lower(email.subject \o " " \o email.body)
    IN  \E b \in 1..Len(banks) :
            /\ Contains(text, banks[b].name)
            /\ \A v \in 1..Len(banks[b].valid_domains) :
                   email.sender_domain # banks[b].valid_domains[v]

\* C12: when a sender domain is supplied, the mismatch term (+0.40 and its
\* reason) is applied iff some brand keyword occurs in the text and the
\* sender's domain is not a member of that brand's known-domain set; a
\* domain that merely contains a known domain, such as hdfcbank.com.evil.tk,
\* is flagged.
C12_MismatchIffNotKnownDomain ==
    (Done /\ email.sender_domain # "") =>
        /\ C10_HasReason("Sender domain mismatch") <=> C12_BrandClaimedFromOtherDomain
        /\ C12_BrandClaimedFromOtherDomain => result.phishing_score >= 40

(***************************************************************************)
(* Claims about WebpageClassifier, checked under SpecWebpage               *)
(***************************************************************************)
\* The number of keywords of the list found in the first 1000 characters of
\* the lower-cased text of the page.
C13_Found(keywords) ==
    LET text == Lower(page.text)
        sample == Slice(text, 1, 1000)
    IN  Cardinality({k \in 1..Len(keywords) : Contains(sample, keywords[k])})

\* min(p * 0.15, 0.4) + (0.3 if a financial keyword and an indicator are
\* both present), in hundredths.
C13_RuleScore ==
    LET p == C13_Found(phishing_indicators)
        f == C13_Found(financial_keywords)
    IN  Min(p * 15, 40) + (IF f >= 1 /\ p >= 1 THEN 30 ELSE 0)

\* C13: with no ML opinion the phishing_score is min(p * 0.15, 0.4) + (0.3
\* if at least one financial keyword and one phishing indicator are present)
\* and confidence stays 0.0; with an ML opinion m for the phishing category
\* the score is rule_score * 0.6 + m * 0.4 and confidence is m; is_phishing
\* iff phishing_score > 0.5 and is_financial iff at least 3 financial
\* keywords are found.
C13_WebpageScore ==
    Done =>
        /\ result.outcome = "returned"
        /\ page.classifier.kind # "result" =>
              /\ result.phishing_score = C13_RuleScore * 100
              /\ result.confidence = 0
        /\ page.classifier.kind = "result" =>
              /\ result.phishing_score = C13_RuleScore * 60 + page.classifier.phishing * 40
              /\ result.confidence = page.classifier.phishing
        /\ result.is_phishing <=> result.phishing_score > 5000
        /\ result.is_financial <=> C13_Found(financial_keywords) >= 3

\* classify returned for a page with two indicators and financial keywords
\* and an ML opinion of 0.35: the blend is 0.6 * 0.6 + 0.35 * 0.4 = 0.5, not
\* phishing.
C13_Witness ==
    /\ Returned
    /\ page.text = "Verify your account: enter your password for bank login"
    /\ page.classifier = [kind |-> "result", phishing |-> 35]
    /\ result.phishing_score = 5000
    /\ ~result.is_phishing
    /\ result.is_financial

(***************************************************************************)
(* Claims about DomainChecker.check_age, checked under SpecDomain          *)
(***************************************************************************)
\* C14: for every WHOIS record handled by check_age, is_new is true iff
\* age_days >= 0 and age_days < 90; a creation timestamp in the future never
\* yields is_new = true, age_days = 89 is new and age_days = 90 is not.
C14_IsNewIffWithinThreshold ==
    Done =>
        /\ result.is_new <=> (result.age_days >= 0 /\ result.age_days < 90)
        /\ (whois.kind = "record" /\ whois.creation_date.age_hours < 0) => ~result.is_new

\* The lookup raised, a later step of processing the record raised, or the
\* record has no creation timestamp.
C15_Failed ==
    \/ whois.kind = "raises"
    \/ /\ whois.kind = "record"
       /\ \/ whois.creation_date.form \in {"none", "empty_list", "str"}
          \/ whois.registrar.attr = "raises"

\* C15: check_age never propagates a failure: when the lookup raises, a
\* later step raises or there is no creation timestamp, it returns exactly
\* {age_days: -1, is_new: false, registration_date: null, registrar: null}.
C15_FailureGivesDefaults ==
    Done =>
        /\ result.outcome = "returned"
        /\ C15_Failed =>
              /\ result.age_days = -1
              /\ ~result.is_new
              /\ result.registration_date = "None"
              /\ result.registrar = "None"

C17_DetectorOf(endpoint) ==
    CASE endpoint = "/api/analyze/email" -> 1
      [] endpoint = "/api/analyze/url" -> 2
      [] endpoint = "/api/analyze/webpage" -> 3
      [] endpoint = "/api/risk-score" -> 4
      [] endpoint = "/api/domain-age/{domain}" -> 5
      [] OTHER -> 0

\* C17: a request to an analysis endpoint whose detector is not initialized
\* is answered with HTTP 503 carrying the "... not initialized" detail, and
\* the detector is not invoked.
C17_UninitializedGives503 ==
    (/\ pc = "serving"
     /\ C17_DetectorOf(request.endpoint) # 0
     /\ ~detectors[C17_DetectorOf(request.endpoint)]) =>
        /\ response.status = 503
        /\ Contains(response.detail, "not initialized")
        /\ calls = <<>>

\* C18: startup initializes the detectors in the order email detector, URL
\* detector, webpage classifier, risk scorer, domain checker and the first
\* failure aborts the rest, so the initialized detectors are always a prefix
\* of that order; startup completes, requests are served whatever is
\* initialized (every handler has the one guard that startup is over), and
\* /health answers 'healthy' in all of those states.
C18_InitializedIsPrefix ==
    /\ DetectorNames =
         <<"email_detector", "url_detector", "webpage_classifier", "risk_scorer",
           "domain_checker">>
    /\ \A d \in 2..Len(DetectorNames) : detectors[d] => detectors[d - 1]
    /\ pc = "startup" => ENABLED Startup
    /\ pc = "serving" =>
          /\ ENABLED Health
          /\ ENABLED ApiAnalyzeWebpage
          /\ ENABLED ApiRiskScore
          /\ ENABLED ApiDomainAge
    /\ request.endpoint = "/health" =>
          /\ response.status = 200
          /\ response.body.status = "healthy"
          /\ response.body.models = detectors

\* Startup failed at the webpage classifier: two detectors are set, three
\* are not, and /health has answered 'healthy'.
C18_Witness ==
    /\ pc = "serving"
    /\ detectors = [d \in 1..5 |-> d <= 2]
    /\ request.endpoint = "/health"
    /\ response.body.status = "healthy"

====
